---- MODULE Spec2Model ----
(***************************************************************************)
(* A model of src/transformer.ipynb: the causal mask, multi-head attention *)
(* (construction and forward, at the level of tensor shapes), positional   *)
(* encoding, the sublayer/layer/stack forward passes (tensors as terms of  *)
(* the operations applied) and the ownership of parameters in make_model.  *)
(*                                                                         *)
(* A tensor shape is a sequence of naturals.  An exception raised by a     *)
(* tensor operation is the shape Raised, which no tensor has.              *)
(***************************************************************************)
EXTENDS Integers, Sequences, FiniteSets, TLC

VARIABLES
    \* subsequent_mask(size)
    size, mask_pc, subsequent_mask,
    \* MultiHeadedAttention: the construction attempt, the instance, the calls
    ctor, mha, calls, nforward, last_store, weights_log,
    \* PositionalEncoding: the instance and one forward call
    pe, pe_call,
    \* A forward pass of a SublayerConnection, an Encoder or a Decoder
    prog, N, p_drop, x_in, x_run, memory, src_mask, tgt_mask, layer_i, stack_pc,
    sublayer, tmp, log,
    \* make_model: the objects allocated, the locals, the model, and the
    \* parameters changed after it returned
    make_pc, n_layers, heap, local, model, xavier, written, written_slots

maskVars == <<size, mask_pc, subsequent_mask>>
mhaVars == <<ctor, mha, calls, nforward, last_store, weights_log>>
peVars == <<pe, pe_call>>
stackVars == <<prog, N, p_drop, x_in, x_run, memory, src_mask, tgt_mask, layer_i, stack_pc,
               sublayer, tmp, log>>
modelVars == <<make_pc, n_layers, heap, local, model, xavier, written, written_slots>>
vars == <<maskVars, mhaVars, peVars, stackVars, modelVars>>

\* What an action of one component leaves alone: the other components.
notMask == <<mhaVars, peVars, stackVars, modelVars>>
notMHA == <<maskVars, peVars, stackVars, modelVars>>
notPE == <<maskVars, mhaVars, stackVars, modelVars>>
notStack == <<maskVars, mhaVars, peVars, modelVars>>
notModel == <<maskVars, mhaVars, peVars, stackVars>>

(***************************************************************************)
(* Bounds of the model.                                                    *)
(***************************************************************************)
MaxSize == 30
MaxH == 2
MaxDModel == 4
MaxBatch == 2
MaxSeq == 2
MaxForward == 3
MaxLen == 3
MaxPESeq == 4
MaxN == 2
MaxStackLen == 3
MemLen == 2
MaxWrites == 2

(***************************************************************************)
(* Tensor shapes and the shape rules of the torch operations the notebook  *)
(* calls.                                                                  *)
(***************************************************************************)
Raised == <<-1>>

Max(a, b) == IF a >= b THEN a ELSE b

Min(a, b) == IF a <= b THEN a ELSE b

RECURSIVE Numel(_)
Numel(shape) == IF shape = <<>> THEN 1 ELSE Head(shape) * Numel(Tail(shape))

Last(s) == s[Len(s)]

Front(s) == SubSeq(s, 1, Len(s) - 1)

\* The shape padded on the left with 1s to n dimensions.
PadLeft(shape, n) == [k \in 1..n |-> IF k <= n - Len(shape) THEN 1 ELSE shape[k - (n - Len(shape))]]

\* torch's broadcasting rule: aligned from the right, two sizes are
\* compatible when equal or when one of them is 1.
Broadcast(a, b) ==
    LET n == Max(Len(a), Len(b))
        pa == PadLeft(a, n)
        pb == PadLeft(b, n)
    IN  IF \E k \in 1..n : pa[k] # pb[k] /\ pa[k] # 1 /\ pb[k] # 1
        THEN Raised
        ELSE [k \in 1..n |-> IF pa[k] = 1 THEN pb[k] ELSE pa[k]]

\* Whether a tensor of shape `from` expands to exactly the shape `to`.
ExpandsTo(from, to) ==
    /\ Len(from) <= Len(to)
    /\ LET pf == PadLeft(from, Len(to))
       IN  \A k \in 1..Len(to) : pf[k] = to[k] \/ pf[k] = 1

\* tensor.transpose(a, b), dimensions counted from 1 here.
Transpose(shape, a, b) ==
    IF shape = Raised THEN Raised
    ELSE [k \in 1..Len(shape) |-> IF k = a THEN shape[b] ELSE IF k = b THEN shape[a] ELSE shape[k]]

\* tensor.view(target) where target holds one -1, inferred from the number
\* of elements.
View(shape, target) ==
    IF shape = Raised THEN Raised
    ELSE LET known == Numel([k \in 1..Len(target) |-> IF target[k] = -1 THEN 1 ELSE target[k]])
         IN  IF known = 0 \/ Numel(shape) % known # 0
             THEN Raised
             ELSE [k \in 1..Len(target) |-> IF target[k] = -1 THEN Numel(shape) \div known ELSE target[k]]

\* torch.matmul of two tensors of at least two dimensions: the batch
\* dimensions broadcast, the inner sizes must agree.
Matmul(a, b) ==
    IF a = Raised \/ b = Raised THEN Raised
    ELSE LET la == Len(a)
             lb == Len(b)
             batch == Broadcast(SubSeq(a, 1, la - 2), SubSeq(b, 1, lb - 2))
         IN  IF a[la] # b[lb - 1] \/ batch = Raised
             THEN Raised
             ELSE batch \o <<a[la - 1], b[lb]>>

\* nn.Linear(in_features, out_features) applied to a tensor.
Linear(in_features, out_features, shape) ==
    IF shape = Raised \/ Last(shape) # in_features
    THEN Raised
    ELSE Front(shape) \o <<out_features>>

\* tensor.masked_fill(mask, value), out of place: tensor and mask are
\* broadcast against each other.
MaskedFill(shape, mask) ==
    IF shape = Raised THEN Raised ELSE Broadcast(shape, mask)

(***************************************************************************)
(* subsequent_mask(size): a tensor is its shape and, for the (1, n, n)     *)
(* tensors here, the entries data[i][j] of its only batch element.         *)
(***************************************************************************)
SubsequentMaskDiagonal == 1

NoTensor == [shape |-> <<>>, data |-> <<>>]

\* torch.ones(shape) for a shape (1, n, n).
Ones(shape) ==
    [shape |-> shape,
     data |-> [i \in 0..(shape[2] - 1) |-> [j \in 0..(shape[3] - 1) |-> 1]]]

\* A tril-like slip: the kept half is the lower one.
TriuLower(t, diagonal) ==
    [shape |-> t.shape,
     data |-> [i \in DOMAIN t.data |->
                 [j \in DOMAIN t.data[i] |-> IF j - i <= diagonal THEN t.data[i][j] ELSE 0]]]

\* torch.triu(t, diagonal): entries on and above the diagonal-th diagonal
\* are kept, the others become 0.
Triu(t, diagonal) ==
    [shape |-> t.shape,
     data |-> [i \in DOMAIN t.data |->
                 [j \in DOMAIN t.data[i] |-> IF j - i >= diagonal THEN t.data[i][j] ELSE 0]]]

\* tensor.type(torch.uint8) of a tensor of 0.0s and 1.0s.
TypeUint8(t) ==
    [shape |-> t.shape,
     data |-> [i \in DOMAIN t.data |-> [j \in DOMAIN t.data[i] |-> t.data[i][j] % 256]]]

\* tensor == scalar, elementwise.
EqScalar(t, c) ==
    [shape |-> t.shape,
     data |-> [i \in DOMAIN t.data |-> [j \in DOMAIN t.data[i] |-> t.data[i][j] = c]]]

\* The output the notebook records for subsequent_mask(5).
CellOutput ==
    << <<TRUE, FALSE, FALSE, FALSE, FALSE>>,
       <<TRUE, TRUE, FALSE, FALSE, FALSE>>,
       <<TRUE, TRUE, TRUE, FALSE, FALSE>>,
       <<TRUE, TRUE, TRUE, TRUE, FALSE>>,
       <<TRUE, TRUE, TRUE, TRUE, TRUE>> >>

\* subsequent_mask(size), for size >= 0, as one function.
SubsequentMask(n) ==
    EqScalar(TypeUint8(Triu(Ones(<<1, n, n>>), SubsequentMaskDiagonal)), 0)

MaskInit ==
    /\ size \in (-1)..MaxSize
    /\ mask_pc = "called"
    /\ subsequent_mask = NoTensor

\* attn_shape = (1, size, size); torch.ones(attn_shape)
MaskOnes ==
    /\ mask_pc = "called"
    /\ IF size < 0
       THEN /\ mask_pc' = "raised"
            /\ subsequent_mask' = NoTensor
       ELSE /\ mask_pc' = "ones"
            /\ subsequent_mask' = Ones(<<1, size, size>>)
    /\ UNCHANGED <<size, notMask>>

\* torch.triu(..., diagonal=1)
MaskTriu ==
    /\ mask_pc = "ones"
    /\ mask_pc' = "triu"
    /\ subsequent_mask' = Triu(subsequent_mask, SubsequentMaskDiagonal)
    /\ UNCHANGED <<size, notMask>>

\* .type(torch.uint8)
MaskType ==
    /\ mask_pc = "triu"
    /\ mask_pc' = "uint8"
    /\ subsequent_mask' = TypeUint8(subsequent_mask)
    /\ UNCHANGED <<size, notMask>>

\* return subsequent_mask == 0
MaskReturn ==
    /\ mask_pc = "uint8"
    /\ mask_pc' = "returned"
    /\ subsequent_mask' = EqScalar(subsequent_mask, 0)
    /\ UNCHANGED <<size, notMask>>

(***************************************************************************)
(* MultiHeadedAttention.  Tensors are shapes here; the attention weights   *)
(* also carry the serial number of the forward call that computed them,    *)
(* as each call's weights are an object of their own.                      *)
(***************************************************************************)
Callers == 1..2

NoneAttn == [call |-> 0, shape |-> <<>>]

NoMask == [given |-> FALSE, shape |-> <<>>]

NoInstance ==
    [exists |-> FALSE, h |-> 0, d_k |-> 0,
     linears |-> [in_features |-> 0, out_features |-> 0], attn |-> NoneAttn]

\* __init__ without its assert.
MHAInitNoAssert(h, d_model) ==
    IF h = 0
    THEN [outcome |-> "ZeroDivisionError", instance |-> NoInstance]
    ELSE [outcome |-> "ok",
          instance |-> [exists |-> TRUE, h |-> h, d_k |-> d_model \div h,
                        linears |-> [in_features |-> d_model, out_features |-> d_model],
                        attn |-> NoneAttn]]

\* MultiHeadedAttention.__init__(h, d_model): `assert d_model % h == 0`
\* raises before any field is set; d_model % 0 raises ZeroDivisionError.
MHAInit(h, d_model) ==
    IF h = 0
    THEN [outcome |-> "ZeroDivisionError", instance |-> NoInstance]
    ELSE IF d_model % h # 0
    THEN [outcome |-> "AssertionError", instance |-> NoInstance]
    ELSE [outcome |-> "ok",
          instance |-> [exists |-> TRUE, h |-> h, d_k |-> d_model \div h,
                        linears |-> [in_features |-> d_model, out_features |-> d_model],
                        attn |-> NoneAttn]]

\* mask.unsqueeze(1)
Unsqueeze1(shape) == <<shape[1], 1>> \o Tail(shape)

\* lin(x).view(nbatches, -1, self.h, self.d_k).transpose(1, 2)
Project(self, x, nbatches) ==
    Transpose(View(Linear(self.linears.in_features, self.linears.out_features, x),
                   <<nbatches, -1, self.h, self.d_k>>), 2, 3)

\* attention(query, key, value, mask): the shapes of (output, p_attn);
\* the output is Raised when any operation raises.
attention(query, key, value, mask) ==
    LET scores == Matmul(query, Transpose(key, Len(key) - 1, Len(key)))
        filled == IF mask.given THEN MaskedFill(scores, mask.shape) ELSE scores
        p_attn == filled
    IN  [x |-> Matmul(p_attn, value), p_attn |-> p_attn]

\* A concatenation that views the heads' outputs d_k wide.
ConcatPerHead(self, x, nbatches) ==
    View(Transpose(x, 2, 3), <<nbatches, -1, self.d_k>>)

\* x.transpose(1, 2).contiguous().view(nbatches, -1, self.h * self.d_k)
Concat(self, x, nbatches) ==
    View(Transpose(x, 2, 3), <<nbatches, -1, self.h * self.d_k>>)

IdleCall ==
    [pc |-> "idle", serial |-> 0,
     args |-> [query |-> <<>>, key |-> <<>>, value |-> <<>>, mask |-> NoMask],
     query |-> <<>>, key |-> <<>>, value |-> <<>>, mask |-> NoMask, nbatches |-> 0,
     x |-> [shape |-> <<>>, weights |-> 0], p_attn |-> NoneAttn,
     out |-> [shape |-> <<>>, weights |-> 0]]

\* The input shapes a call is given: (batch, seq_len, width), the width
\* d_model or not.
InputShapes(d_model) ==
    {<<b, l, w>> : b \in 1..MaxBatch, l \in 1..MaxSeq, w \in {d_model, d_model + 1}}

MaskArgs ==
    {NoMask} \cup {[given |-> TRUE, shape |-> <<b, lq, lk>>] :
                     b \in 1..MaxBatch, lq \in 1..MaxSeq, lk \in 1..MaxSeq}

\* Every (query, key, value, mask) a call may be given.
AllInputs(d_model) ==
    [query : InputShapes(d_model), key : InputShapes(d_model),
     value : InputShapes(d_model), mask : MaskArgs]

\* The inputs of self-attention as a layer calls it, self_attn(x, x, x, mask),
\* without a mask.
SelfAttnInputs(d_model) ==
    {[query |-> <<1, l, d_model>>, key |-> <<1, l, d_model>>,
      value |-> <<1, l, d_model>>, mask |-> NoMask] : l \in 1..MaxSeq}

\* MultiHeadedAttention(h, d_model)
Construct ==
    /\ ~ctor.called
    /\ \E h \in 0..MaxH, d_model \in 1..MaxDModel :
         LET r == MHAInit(h, d_model)
         IN  /\ ctor' = [called |-> TRUE, h |-> h, d_model |-> d_model, outcome |-> r.outcome]
             /\ mha' = r.instance
    /\ UNCHANGED <<calls, nforward, last_store, weights_log, notMHA>>

\* self.forward(query, key, value, mask) is entered by caller c.
Call(c, limit, inputs) ==
    /\ mha.exists
    /\ calls[c].pc \in {"idle", "returned", "raised"}
    /\ nforward < limit
    /\ \E a \in inputs :
         calls' = [calls EXCEPT ![c] =
                     [IdleCall EXCEPT !.pc = "entered", !.serial = nforward + 1, !.args = a,
                                      !.query = a.query, !.key = a.key, !.value = a.value,
                                      !.mask = a.mask]]
    /\ nforward' = nforward + 1
    /\ UNCHANGED <<ctor, mha, last_store, weights_log, notMHA>>

\* The mask is unsqueezed, nbatches read and query, key and value projected
\* and split into heads, in this order; the first exception ends the call.
ProjectStep(c) ==
    /\ calls[c].pc = "entered"
    /\ LET cl == calls[c]
           nbatches == cl.query[1]
           q == Project(mha, cl.query, nbatches)
           k == Project(mha, cl.key, nbatches)
           v == Project(mha, cl.value, nbatches)
           m == IF cl.mask.given
                THEN [given |-> TRUE, shape |-> Unsqueeze1(cl.mask.shape)]
                ELSE NoMask
       IN  calls' = [calls EXCEPT ![c] =
                       IF q = Raised \/ k = Raised \/ v = Raised
                       THEN [cl EXCEPT !.pc = "raised"]
                       ELSE [cl EXCEPT !.pc = "projected", !.nbatches = nbatches, !.mask = m,
                                       !.query = q, !.key = k, !.value = v]]
    /\ UNCHANGED <<ctor, mha, nforward, last_store, weights_log, notMHA>>

\* attention(query, key, value, mask=mask, dropout=self.dropout) is
\* evaluated: its two results are not bound yet.
Attend(c) ==
    /\ calls[c].pc = "projected"
    /\ LET cl == calls[c]
           r == attention(cl.query, cl.key, cl.value, cl.mask)
       IN  IF r.x = Raised
           THEN /\ calls' = [calls EXCEPT ![c] = [cl EXCEPT !.pc = "raised"]]
                /\ UNCHANGED weights_log
           ELSE /\ calls' = [calls EXCEPT ![c] =
                               [cl EXCEPT !.pc = "attended",
                                          !.x = [shape |-> r.x, weights |-> cl.serial],
                                          !.p_attn = [call |-> cl.serial, shape |-> r.p_attn]]]
                /\ weights_log' = [weights_log EXCEPT ![cl.serial] = r.p_attn]
    /\ UNCHANGED <<ctor, mha, nforward, last_store, notMHA>>

\* x, self.attn = <the two results>: the statement completes.
StoreAttn(c) ==
    /\ calls[c].pc = "attended"
    /\ mha' = [mha EXCEPT !.attn = calls[c].p_attn]
    /\ last_store' = calls[c].serial
    /\ calls' = [calls EXCEPT ![c].pc = "stored"]
    /\ UNCHANGED <<ctor, nforward, weights_log, notMHA>>

\* A forward that reads the weights back from self.attn after the
\* attention step instead of using its own.
FinishFromRetained(c) ==
    /\ calls[c].pc = "stored"
    /\ LET cl == calls[c]
           x == Concat(mha, cl.x.shape, cl.nbatches)
           out == Linear(mha.linears.in_features, mha.linears.out_features, x)
       IN  calls' = [calls EXCEPT ![c] =
                       IF out = Raised
                       THEN [cl EXCEPT !.pc = "raised"]
                       ELSE [cl EXCEPT !.pc = "returned",
                                       !.out = [shape |-> out, weights |-> mha.attn.call]]]
    /\ UNCHANGED <<ctor, mha, nforward, last_store, weights_log, notMHA>>

\* The heads are concatenated and self.linears[-1] applied; its result is
\* returned.
Finish(c) ==
    /\ calls[c].pc = "stored"
    /\ LET cl == calls[c]
           x == Concat(mha, cl.x.shape, cl.nbatches)
           out == Linear(mha.linears.in_features, mha.linears.out_features, x)
       IN  calls' = [calls EXCEPT ![c] =
                       IF out = Raised
                       THEN [cl EXCEPT !.pc = "raised"]
                       ELSE [cl EXCEPT !.pc = "returned",
                                       !.out = [shape |-> out, weights |-> cl.x.weights]]]
    /\ UNCHANGED <<ctor, mha, nforward, last_store, weights_log, notMHA>>

MHAIdle ==
    /\ ctor = [called |-> FALSE, h |-> 0, d_model |-> 0, outcome |-> ""]
    /\ mha = NoInstance
    /\ calls = [c \in Callers |-> IdleCall]
    /\ nforward = 0
    /\ last_store = 0
    /\ weights_log = [s \in 1..MaxForward |-> <<>>]

(***************************************************************************)
(* PositionalEncoding.  The table pe has shape (1, max_len, d_model); a    *)
(* forward result is its shape and, per position, the row of the table     *)
(* that was added to it.                                                   *)
(***************************************************************************)
NoPE == [exists |-> FALSE, d_model |-> 0, max_len |-> 0, pe |-> <<>>]

IdlePECall == [pc |-> "idle", x |-> <<>>, out |-> [shape |-> <<>>, rows |-> <<>>]]

\* PositionalEncoding.__init__(d_model, dropout, max_len): div_term has
\* one entry per even feature index; pe[:, 1::2] = cos(...) raises unless
\* that many columns expand to the odd feature indices.
PEInit(d_model, max_len) ==
    LET n_even == (d_model + 1) \div 2
        n_odd == d_model \div 2
    IN  IF ExpandsTo(<<max_len, n_even>>, <<max_len, n_odd>>)
        THEN [exists |-> TRUE, d_model |-> d_model, max_len |-> max_len,
              pe |-> <<1, max_len, d_model>>]
        ELSE NoPE

\* self.pe[:, : x.size(1)]: a slice never raises, it stops at the table's end.
PESlice(self, x) == <<1, Min(x[2], self.max_len), self.d_model>>

\* x + self.pe[:, : x.size(1)], then dropout: the sum's shape and the table
\* row each position of the sum received.
PEForward(self, x) ==
    LET slice == PESlice(self, x)
        sum == Broadcast(x, slice)
    IN  IF sum = Raised
        THEN [shape |-> Raised, rows |-> <<>>]
        ELSE [shape |-> sum,
              rows |-> [p \in 0..(sum[2] - 1) |-> IF slice[2] = 1 THEN 0 ELSE p]]

PEIdle ==
    /\ pe = NoPE
    /\ pe_call = IdlePECall

\* PositionalEncoding(d_model, dropout, max_len)
PEConstruct ==
    /\ ~pe.exists
    /\ \E d_model \in 1..MaxDModel, max_len \in 1..MaxLen :
         pe' = PEInit(d_model, max_len)
    /\ UNCHANGED <<pe_call, notPE>>

\* self.forward(x) is entered.
PECall ==
    /\ pe.exists
    /\ pe_call.pc = "idle"
    /\ \E b \in 1..MaxBatch, l \in 1..MaxPESeq, w \in 1..MaxDModel :
         pe_call' = [IdlePECall EXCEPT !.pc = "entered", !.x = <<b, l, w>>]
    /\ UNCHANGED <<pe, notPE>>

\* The body of forward.
PEReturn ==
    /\ pe_call.pc = "entered"
    /\ LET r == PEForward(pe, pe_call.x)
       IN  pe_call' = [pe_call EXCEPT !.pc = IF r.shape = Raised THEN "raised" ELSE "returned",
                                      !.out = r]
    /\ UNCHANGED <<pe, notPE>>

(***************************************************************************)
(* The forward passes of the sublayer connection, the layers and the       *)
(* stacks.  A tensor (one batch element) is a function from the positions  *)
(* 0..L-1 to terms: the term at a position names the operations that       *)
(* produced the vector there and the vectors they read, so two tensors     *)
(* with the same term at a position hold the same vector there.  A module  *)
(* is named by <<stack, layer, slot>>; rnd names the random draws of a     *)
(* pass (0 when dropout is off: nothing is drawn).                         *)
(*                                                                         *)
(* A masked score is -1e9, whose softmax weight underflows to 0 next to an *)
(* unmasked score: a row reads the keys and values of its unmasked         *)
(* positions only.  A row with every position masked has equal scores and  *)
(* weighs all the values uniformly.                                        *)
(***************************************************************************)
Runs == 1..2

Positions(t) == DOMAIN t

\* mask[0][i][j], the mask broadcast over the rows or columns it lacks;
\* NoTensor is mask=None.
MaskAt(mask, i, j) ==
    mask.data[IF mask.shape[2] = 1 THEN 0 ELSE i][IF mask.shape[3] = 1 THEN 0 ELSE j]

\* LayerNorm.forward: mean and std over the features of each position.
LayerNormForward(self, t) == [i \in Positions(t) |-> <<"norm", self, t[i]>>]

\* nn.Dropout(p): the identity when p is zero.
DropoutForward(self, rnd, t) ==
    IF rnd = 0 THEN t ELSE [i \in Positions(t) |-> <<"dropout", self, rnd, t[i]>>]

\* x + y, elementwise.
Add(t, u) == [i \in Positions(t) |-> <<"add", t[i], u[i]>>]

\* PositionwiseFeedForward.forward: w_2(dropout(relu(w_1(x)))) at each
\* position.
PositionwiseFeedForwardForward(self, rnd, t) ==
    [i \in Positions(t) |-> <<"ff", self, rnd, t[i]>>]

\* An attention that does not apply its mask.
UnmaskedAttentionForward(self, rnd, query, key, value, mask) ==
    [i \in Positions(query) |->
        <<"mha", self, rnd, query[i],
          [j \in Positions(key) |-> <<"kv", key[j], value[j]>>]>>]

\* MultiHeadedAttention.forward with attention inside: position i of the
\* output is computed from query[i] and, for each j the mask allows to
\* row i, key[j] and value[j].
MultiHeadedAttentionForward(self, rnd, query, key, value, mask) ==
    [i \in Positions(query) |->
        LET allowed == {j \in Positions(key) : mask = NoTensor \/ MaskAt(mask, i, j)}
        IN  <<"mha", self, rnd, query[i],
              [j \in Positions(key) |->
                  IF allowed = {} THEN <<"uniform", value[j]>>
                  ELSE IF j \in allowed THEN <<"kv", key[j], value[j]>>
                  ELSE <<"masked">>]>>]

\* SublayerConnection.forward(x, sublayer):
\* x + self.dropout(sublayer(self.norm(x)))
SublayerConnectionForward(self, rnd, t, F(_)) ==
    Add(t, DropoutForward(self, rnd, F(LayerNormForward(self, t))))

\* EncoderLayer.forward(x, mask) of layer l.
EncoderLayerForward(l, rnd, t, mask) ==
    LET t1 == SublayerConnectionForward(<<"encoder", l, "sublayer0">>, rnd, t,
                  LAMBDA y : MultiHeadedAttentionForward(<<"encoder", l, "self_attn">>,
                                                         rnd, y, y, y, mask))
    IN  SublayerConnectionForward(<<"encoder", l, "sublayer1">>, rnd, t1,
            LAMBDA y : PositionwiseFeedForwardForward(<<"encoder", l, "feed_forward">>, rnd, y))

\* DecoderLayer.forward(x, memory, src_mask, tgt_mask) of layer l.
DecoderLayerForward(l, rnd, t, m, smask, tmask) ==
    LET t1 == SublayerConnectionForward(<<"decoder", l, "sublayer0">>, rnd, t,
                  LAMBDA y : MultiHeadedAttentionForward(<<"decoder", l, "self_attn">>,
                                                         rnd, y, y, y, tmask))
        t2 == SublayerConnectionForward(<<"decoder", l, "sublayer1">>, rnd, t1,
                  LAMBDA y : MultiHeadedAttentionForward(<<"decoder", l, "src_attn">>,
                                                         rnd, y, m, m, smask))
    IN  SublayerConnectionForward(<<"decoder", l, "sublayer2">>, rnd, t2,
            LAMBDA y : PositionwiseFeedForwardForward(<<"decoder", l, "feed_forward">>, rnd, y))

\* The random draws of run r.
Rnd(r) == IF p_drop = 0 THEN 0 ELSE r

\* The input tensors of length n: position i holds the vector <<"x", i, 0>>
\* or another one, <<"x", i, 1>>.
Inputs(n) == {[i \in 0..(n - 1) |-> <<"x", i, v[i]>>] : v \in [0..(n - 1) -> {0, 1}]}

\* The padding masks (1, 1, n): the first k positions are kept, the
\* padding after them is suppressed, for every k in 0..n.
PaddingMasks(n) ==
    {[shape |-> <<1, 1, n>>, data |-> [i \in {0} |-> [j \in 0..(n - 1) |-> j < k]]] : k \in 0..n}

Memory == [j \in 0..(MemLen - 1) |-> <<"memory", j>>]

NoTerms == <<>>

StackIdle ==
    /\ prog = "none" /\ N = 0 /\ p_drop = 0
    /\ x_in = NoTerms /\ x_run = NoTerms /\ memory = NoTerms
    /\ src_mask = NoTensor /\ tgt_mask = NoTensor
    /\ layer_i = 0 /\ stack_pc = "idle"
    /\ sublayer = "none" /\ tmp = NoTerms /\ log = <<>>

\* A call of SublayerConnection.forward(x, sublayer), of Encoder.forward(x,
\* mask) or of Decoder.forward(x, memory, src_mask, tgt_mask) is entered.
\* The decoder is run on two target inputs at once, with the same memory
\* and masks.
StackInit ==
    /\ prog \in {"sublayer", "encoder", "decoder"}
    /\ p_drop \in {0, 1}
    /\ \E n \in 1..MaxStackLen :
         /\ x_in \in [Runs -> Inputs(n)]
         /\ \A i \in 0..(n - 1) : x_in[1][i] = <<"x", i, 0>>
         /\ prog # "decoder" => x_in[1] = x_in[2]
         /\ IF prog = "decoder"
            THEN /\ tgt_mask \in {SubsequentMask(n), NoTensor}
                 /\ src_mask \in PaddingMasks(MemLen)
                 /\ memory = Memory
            ELSE /\ tgt_mask = NoTensor
                 /\ src_mask \in IF prog = "encoder" THEN PaddingMasks(n) ELSE {NoTensor}
                 /\ memory = NoTerms
    /\ N \in IF prog = "sublayer" THEN {0} ELSE 1..MaxN
    /\ sublayer \in IF prog = "sublayer" THEN {"identity", "feed_forward"} ELSE {"none"}
    /\ x_run = x_in
    /\ layer_i = 0
    /\ stack_pc = IF prog = "sublayer" THEN "norm" ELSE "layers"
    /\ tmp = NoTerms
    /\ log = <<>>

\* The sublayer function a SublayerConnection is called with.
Sublayer(f, rnd, t) ==
    IF f = "identity" THEN t
    ELSE PositionwiseFeedForwardForward(<<"sublayer", 0, "feed_forward">>, rnd, t)

Self == <<"sublayer", 0, "sublayer0">>

\* x + self.dropout(sublayer(self.norm(x))), in Python's order of
\* evaluation: self.norm(x) is called first ...
SubNorm ==
    /\ prog = "sublayer" /\ stack_pc = "norm"
    /\ tmp' = [r \in Runs |-> LayerNormForward(Self, x_run[r])]
    /\ log' = Append(log, [op |-> "norm", arg |-> x_run])
    /\ stack_pc' = "sublayer"
    /\ UNCHANGED <<prog, N, p_drop, x_in, x_run, memory, src_mask, tgt_mask, layer_i, sublayer, notStack>>

\* A forward that calls sublayer with x itself, not with the norm's result.
SubApplyToInput ==
    /\ prog = "sublayer" /\ stack_pc = "sublayer"
    /\ tmp' = [r \in Runs |-> Sublayer(sublayer, Rnd(r), x_run[r])]
    /\ log' = Append(log, [op |-> "sublayer", arg |-> x_run])
    /\ stack_pc' = "dropout"
    /\ UNCHANGED <<prog, N, p_drop, x_in, x_run, memory, src_mask, tgt_mask, layer_i, sublayer, notStack>>

\* ... sublayer is called with its result ...
SubApply ==
    /\ prog = "sublayer" /\ stack_pc = "sublayer"
    /\ tmp' = [r \in Runs |-> Sublayer(sublayer, Rnd(r), tmp[r])]
    /\ log' = Append(log, [op |-> "sublayer", arg |-> tmp])
    /\ stack_pc' = "dropout"
    /\ UNCHANGED <<prog, N, p_drop, x_in, x_run, memory, src_mask, tgt_mask, layer_i, sublayer, notStack>>

\* ... self.dropout with the sublayer's ...
SubDropout ==
    /\ prog = "sublayer" /\ stack_pc = "dropout"
    /\ tmp' = [r \in Runs |-> DropoutForward(Self, Rnd(r), tmp[r])]
    /\ log' = Append(log, [op |-> "dropout", arg |-> tmp])
    /\ stack_pc' = "add"
    /\ UNCHANGED <<prog, N, p_drop, x_in, x_run, memory, src_mask, tgt_mask, layer_i, sublayer, notStack>>

\* ... and x, the argument of forward, is added to the result.
SubAdd ==
    /\ prog = "sublayer" /\ stack_pc = "add"
    /\ x_run' = [r \in Runs |-> Add(x_run[r], tmp[r])]
    /\ log' = Append(log, [op |-> "add", arg |-> x_run])
    /\ stack_pc' = "returned"
    /\ UNCHANGED <<prog, N, p_drop, x_in, memory, src_mask, tgt_mask, layer_i, sublayer, tmp, notStack>>

\* An Encoder that normalizes after every layer.
EncoderLayerStepNormEach ==
    /\ prog = "encoder" /\ stack_pc = "layers" /\ layer_i < N
    /\ x_run' = [r \in Runs |->
               LayerNormForward(<<"encoder", 0, "norm">>,
                                EncoderLayerForward(layer_i + 1, Rnd(r), x_run[r], src_mask))]
    /\ layer_i' = layer_i + 1
    /\ UNCHANGED <<prog, N, p_drop, x_in, memory, src_mask, tgt_mask, stack_pc, sublayer, tmp, log,
                   notStack>>

\* Encoder.forward: for layer in self.layers: x = layer(x, mask)
EncoderLayerStep ==
    /\ prog = "encoder" /\ stack_pc = "layers" /\ layer_i < N
    /\ x_run' = [r \in Runs |-> EncoderLayerForward(layer_i + 1, Rnd(r), x_run[r], src_mask)]
    /\ layer_i' = layer_i + 1
    /\ UNCHANGED <<prog, N, p_drop, x_in, memory, src_mask, tgt_mask, stack_pc, sublayer, tmp, log,
                   notStack>>

\* Encoder.forward: return self.norm(x)
EncoderReturn ==
    /\ prog = "encoder" /\ stack_pc = "layers" /\ layer_i = N
    /\ x_run' = [r \in Runs |-> LayerNormForward(<<"encoder", 0, "norm">>, x_run[r])]
    /\ stack_pc' = "returned"
    /\ UNCHANGED <<prog, N, p_drop, x_in, memory, src_mask, tgt_mask, layer_i, sublayer, tmp, log,
                   notStack>>

\* Decoder.forward: for layer in self.layers:
\*     x = layer(x, memory, src_mask, tgt_mask)
DecoderLayerStep ==
    /\ prog = "decoder" /\ stack_pc = "layers" /\ layer_i < N
    /\ x_run' = [r \in Runs |->
               DecoderLayerForward(layer_i + 1, Rnd(r), x_run[r], memory, src_mask, tgt_mask)]
    /\ layer_i' = layer_i + 1
    /\ UNCHANGED <<prog, N, p_drop, x_in, memory, src_mask, tgt_mask, stack_pc, sublayer, tmp, log,
                   notStack>>

\* Decoder.forward: return self.norm(x)
DecoderReturn ==
    /\ prog = "decoder" /\ stack_pc = "layers" /\ layer_i = N
    /\ x_run' = [r \in Runs |-> LayerNormForward(<<"decoder", 0, "norm">>, x_run[r])]
    /\ stack_pc' = "returned"
    /\ UNCHANGED <<prog, N, p_drop, x_in, memory, src_mask, tgt_mask, layer_i, sublayer, tmp, log,
                   notStack>>

(***************************************************************************)
(* make_model and the ownership of parameters.  A tensor object (a         *)
(* parameter or a buffer) is [id, dim, kind], id its identity; a module is *)
(* the sequence of the tensor objects it and its submodules hold, in the   *)
(* order they were registered.                                             *)
(***************************************************************************)
Ids(module) == {module[k].id : k \in 1..Len(module)}

\* nn.Linear: a weight matrix and a bias vector, allocated after `base`.
NewLinear(base) ==
    <<[id |-> base + 1, dim |-> 2, kind |-> "parameter"],
      [id |-> base + 2, dim |-> 1, kind |-> "parameter"]>>

\* LayerNorm: a_2 and b_2.  A SublayerConnection holds one LayerNorm (its
\* nn.Dropout holds no tensor).
NewLayerNorm(base) ==
    <<[id |-> base + 1, dim |-> 1, kind |-> "parameter"],
      [id |-> base + 2, dim |-> 1, kind |-> "parameter"]>>

\* Embeddings: the weight of nn.Embedding.
NewEmbeddings(base) == <<[id |-> base + 1, dim |-> 2, kind |-> "parameter"]>>

\* PositionalEncoding: the registered buffer pe, of shape (1, max_len, d_model).
NewPositionalEncoding(base) == <<[id |-> base + 1, dim |-> 3, kind |-> "buffer"]>>

\* copy.deepcopy(module): every object of the module is copied once (the
\* memo keeps what the module shares with itself shared in the copy); the
\* copies are allocated after `base`.
DeepCopy(module, base) ==
    [k \in 1..Len(module) |->
        [module[k] EXCEPT !.id = base + 1 + Cardinality({y \in Ids(module) : y < module[k].id})]]

\* The number of objects a deep copy of the module allocates.
NumObjects(module) == Cardinality(Ids(module))

\* A clones that repeats the module itself n times.
ClonesShared(module, n, base) == [k \in 1..n |-> module]

\* clones(module, N): N deep copies, one after the other.
clones(module, n, base) ==
    [k \in 1..n |-> DeepCopy(module, base + (k - 1) * NumObjects(module))]

\* The tensor objects of a list of modules.
RECURSIVE Parameters(_)
Parameters(modules) ==
    IF modules = <<>> THEN <<>> ELSE Head(modules) \o Parameters(Tail(modules))

\* MultiHeadedAttention.__init__: self.linears = clones(nn.Linear(d_model,
\* d_model), 4).  The module and the number of objects allocated.
NewMultiHeadedAttention(base) ==
    LET linear == NewLinear(base)
        linears == clones(linear, 4, base + 2)
    IN  [module |-> Parameters(linears), allocated |-> 2 + 4 * NumObjects(linear)]

\* PositionwiseFeedForward.__init__: w_1 and w_2.
NewPositionwiseFeedForward(base) ==
    [module |-> NewLinear(base) \o NewLinear(base + 2), allocated |-> 4]

\* A layer: EncoderLayer(size, c(attn), c(ff), dropout) with n_sub = 2, or
\* DecoderLayer(size, c(attn), c(attn), c(ff), dropout) with n_sub = 3.  The
\* arguments are evaluated first, in order; then self.sublayer =
\* clones(SublayerConnection(size, dropout), n_sub).
NewLayer(attn, ff, n_attn, n_sub, base) ==
    LET attns == [k \in 1..n_attn |-> DeepCopy(attn, base + (k - 1) * NumObjects(attn))]
        b1 == base + n_attn * NumObjects(attn)
        c_ff == DeepCopy(ff, b1)
        b2 == b1 + NumObjects(ff)
        connection == NewLayerNorm(b2)
        sublayers == clones(connection, n_sub, b2 + 2)
    IN  [module |-> Parameters(attns) \o c_ff \o Parameters(sublayers),
         allocated |-> (b2 + 2 + n_sub * NumObjects(connection)) - base]

\* Encoder(layer, N) or Decoder(layer, N): self.layers = clones(layer, N),
\* self.norm = LayerNorm(layer.size).
NewStack(layer, n, base) ==
    LET layers == clones(layer, n, base)
        b1 == base + n * NumObjects(layer)
    IN  [layers |-> layers, norm |-> NewLayerNorm(b1), allocated |-> (b1 + 2) - base]

NoModel ==
    [encoder |-> [layers |-> <<>>, norm |-> <<>>],
     decoder |-> [layers |-> <<>>, norm |-> <<>>],
     src_embed |-> <<>>, tgt_embed |-> <<>>, generator |-> <<>>]

NoLocal == [attn |-> <<>>, ff |-> <<>>, position |-> <<>>]

\* Every tensor object of the model, encoder first.
ModelObjects ==
    Parameters(model.encoder.layers) \o model.encoder.norm
        \o Parameters(model.decoder.layers) \o model.decoder.norm
        \o model.src_embed \o model.tgt_embed \o model.generator

ModelIdle ==
    /\ make_pc = "idle" /\ n_layers = 0 /\ heap = 0
    /\ local = NoLocal /\ model = NoModel
    /\ xavier = {} /\ written = {} /\ written_slots = {}

\* make_model(src_vocab, tgt_vocab, N, ...) is entered.
ModelInit ==
    /\ make_pc = "attn"
    /\ n_layers \in 1..MaxN
    /\ heap = 0
    /\ local = NoLocal /\ model = NoModel
    /\ xavier = {} /\ written = {} /\ written_slots = {}

\* attn = MultiHeadedAttention(h, d_model)
MakeAttn ==
    /\ make_pc = "attn"
    /\ LET r == NewMultiHeadedAttention(heap)
       IN  /\ local' = [local EXCEPT !.attn = r.module]
           /\ heap' = heap + r.allocated
    /\ make_pc' = "ff"
    /\ UNCHANGED <<n_layers, model, xavier, written, written_slots, notModel>>

\* ff = PositionwiseFeedForward(d_model, d_ff, dropout)
MakeFF ==
    /\ make_pc = "ff"
    /\ LET r == NewPositionwiseFeedForward(heap)
       IN  /\ local' = [local EXCEPT !.ff = r.module]
           /\ heap' = heap + r.allocated
    /\ make_pc' = "position"
    /\ UNCHANGED <<n_layers, model, xavier, written, written_slots, notModel>>

\* position = PositionalEncoding(d_model, dropout)
MakePosition ==
    /\ make_pc = "position"
    /\ local' = [local EXCEPT !.position = NewPositionalEncoding(heap)]
    /\ heap' = heap + 1
    /\ make_pc' = "encoder"
    /\ UNCHANGED <<n_layers, model, xavier, written, written_slots, notModel>>

\* Encoder(EncoderLayer(d_model, c(attn), c(ff), dropout), N)
MakeEncoder ==
    /\ make_pc = "encoder"
    /\ LET layer == NewLayer(local.attn, local.ff, 1, 2, heap)
           stack == NewStack(layer.module, n_layers, heap + layer.allocated)
       IN  /\ model' = [model EXCEPT !.encoder = [layers |-> stack.layers, norm |-> stack.norm]]
           /\ heap' = heap + layer.allocated + stack.allocated
    /\ make_pc' = "decoder"
    /\ UNCHANGED <<n_layers, local, xavier, written, written_slots, notModel>>

\* Decoder(DecoderLayer(d_model, c(attn), c(attn), c(ff), dropout), N)
MakeDecoder ==
    /\ make_pc = "decoder"
    /\ LET layer == NewLayer(local.attn, local.ff, 2, 3, heap)
           stack == NewStack(layer.module, n_layers, heap + layer.allocated)
       IN  /\ model' = [model EXCEPT !.decoder = [layers |-> stack.layers, norm |-> stack.norm]]
           /\ heap' = heap + layer.allocated + stack.allocated
    /\ make_pc' = "src_embed"
    /\ UNCHANGED <<n_layers, local, xavier, written, written_slots, notModel>>

\* nn.Sequential(Embeddings(d_model, src_vocab), c(position))
MakeSrcEmbed ==
    /\ make_pc = "src_embed"
    /\ model' = [model EXCEPT !.src_embed = NewEmbeddings(heap) \o DeepCopy(local.position, heap + 1)]
    /\ heap' = heap + 1 + NumObjects(local.position)
    /\ make_pc' = "tgt_embed"
    /\ UNCHANGED <<n_layers, local, xavier, written, written_slots, notModel>>

\* nn.Sequential(Embeddings(d_model, tgt_vocab), c(position))
MakeTgtEmbed ==
    /\ make_pc = "tgt_embed"
    /\ model' = [model EXCEPT !.tgt_embed = NewEmbeddings(heap) \o DeepCopy(local.position, heap + 1)]
    /\ heap' = heap + 1 + NumObjects(local.position)
    /\ make_pc' = "generator"
    /\ UNCHANGED <<n_layers, local, xavier, written, written_slots, notModel>>

\* Generator(d_model, tgt_vocab)
MakeGenerator ==
    /\ make_pc = "generator"
    /\ model' = [model EXCEPT !.generator = NewLinear(heap)]
    /\ heap' = heap + 2
    /\ make_pc' = "init"
    /\ UNCHANGED <<n_layers, local, xavier, written, written_slots, notModel>>

\* for p in model.parameters(): if p.dim() > 1: nn.init.xavier_uniform_(p);
\* return model
InitParameters ==
    /\ make_pc = "init"
    /\ LET objects == ModelObjects
       IN  xavier' = {objects[k].id : k \in {j \in 1..Len(objects) :
                         objects[j].kind = "parameter" /\ objects[j].dim > 1}}
    /\ make_pc' = "returned"
    /\ UNCHANGED <<n_layers, heap, local, model, written, written_slots, notModel>>

\* After make_model: a tensor object of the model, reached as the k-th of
\* the model, is changed in place (an optimizer step, a manual edit).
WriteParameter ==
    /\ make_pc = "returned"
    /\ Cardinality(written_slots) < MaxWrites
    /\ LET objects == ModelObjects
       IN  \E k \in 1..Len(objects) :
             /\ k \notin written_slots
             /\ written' = written \cup {objects[k].id}
             /\ written_slots' = written_slots \cup {k}
    /\ UNCHANGED <<make_pc, n_layers, heap, local, model, xavier, notModel>>

(***************************************************************************)
(* The specifications.                                                     *)
(***************************************************************************)
MaskIdle ==
    /\ size = 0
    /\ mask_pc = "idle"
    /\ subsequent_mask = NoTensor

InitMask == MaskInit /\ MHAIdle /\ PEIdle /\ StackIdle /\ ModelIdle

NextMask == MaskOnes \/ MaskTriu \/ MaskType \/ MaskReturn

\* subsequent_mask(size), for every size.
SpecMask == InitMask /\ [][NextMask]_vars

InitMHA == MaskIdle /\ MHAIdle /\ PEIdle /\ StackIdle /\ ModelIdle

NextMHA ==
    \/ Construct
    \/ Call(1, 1, AllInputs(ctor.d_model))
    \/ ProjectStep(1)
    \/ Attend(1)
    \/ StoreAttn(1)
    \/ Finish(1)

\* One MultiHeadedAttention is constructed and called once, with inputs of
\* every shape.
SpecMHA == InitMHA /\ [][NextMHA]_vars

ConcInit ==
    /\ \E h \in 1..MaxH :
         /\ ctor = [called |-> TRUE, h |-> h, d_model |-> 2 * h, outcome |-> "ok"]
         /\ mha = MHAInit(h, 2 * h).instance
    /\ calls = [c \in Callers |-> IdleCall]
    /\ nforward = 0
    /\ last_store = 0
    /\ weights_log = [s \in 1..MaxForward |-> <<>>]

InitAttnConc == MaskIdle /\ ConcInit /\ PEIdle /\ StackIdle /\ ModelIdle

NextAttnConc ==
    \E c \in Callers :
        \/ Call(c, MaxForward, SelfAttnInputs(ctor.d_model))
        \/ ProjectStep(c)
        \/ Attend(c)
        \/ StoreAttn(c)
        \/ Finish(c)

\* One constructed MultiHeadedAttention is called by two callers whose
\* calls interleave, MaxForward times in all.
SpecAttnConc == InitAttnConc /\ [][NextAttnConc]_vars

InitPE == MaskIdle /\ MHAIdle /\ PEIdle /\ StackIdle /\ ModelIdle

NextPE == PEConstruct \/ PECall \/ PEReturn

\* One PositionalEncoding is constructed and called once.
SpecPE == InitPE /\ [][NextPE]_vars

InitStack == MaskIdle /\ MHAIdle /\ PEIdle /\ StackInit /\ ModelIdle

NextStack ==
    \/ SubNorm \/ SubApply \/ SubDropout \/ SubAdd
    \/ EncoderLayerStep \/ EncoderReturn
    \/ DecoderLayerStep \/ DecoderReturn

\* One forward pass of a SublayerConnection, an Encoder of N layers or a
\* Decoder of N layers.
SpecStack == InitStack /\ [][NextStack]_vars

InitModel == MaskIdle /\ MHAIdle /\ PEIdle /\ StackIdle /\ ModelInit

NextModel ==
    \/ MakeAttn \/ MakeFF \/ MakePosition \/ MakeEncoder \/ MakeDecoder
    \/ MakeSrcEmbed \/ MakeTgtEmbed \/ MakeGenerator \/ InitParameters
    \/ WriteParameter

\* make_model builds a model of N layers; afterwards up to MaxWrites of its
\* tensor objects are changed.
SpecModel == InitModel /\ [][NextModel]_vars

(***************************************************************************)
(* The claims.                                                             *)
(***************************************************************************)

\* C1: for every size L >= 1, subsequent_mask(L) returns (it does not
\* raise) a boolean tensor of shape (1, L, L) whose entry [0][i][j] is true
\* exactly when j <= i, for all 0 <= i, j < L.
C1_SubsequentMaskLowerTriangular ==
    size >= 1 =>
        /\ mask_pc # "raised"
        /\ mask_pc = "returned" =>
             /\ subsequent_mask.shape = <<1, size, size>>
             /\ DOMAIN subsequent_mask.data = 0..(size - 1)
             /\ \A i \in 0..(size - 1) :
                  /\ DOMAIN subsequent_mask.data[i] = 0..(size - 1)
                  /\ \A j \in 0..(size - 1) :
                       /\ subsequent_mask.data[i][j] \in BOOLEAN
                       /\ subsequent_mask.data[i][j] = (j <= i)

\* C1's case: subsequent_mask(5) has returned the tensor of the notebook's
\* cell output (row 0 has only column 0 true, row 4 every column).
C1_Witness ==
    /\ mask_pc = "returned"
    /\ size = 5
    /\ \A i \in 0..4 : \A j \in 0..4 : subsequent_mask.data[i][j] = CellOutput[i + 1][j + 1]

\* The shapes of a call's arguments are mismatched: batch sizes differ, key
\* and value differ in sequence length, a feature width is not the model's,
\* or the mask does not expand to the score shape (batch, h, len_q, len_k).
Mismatched(a) ==
    \/ a.query[1] # a.key[1]
    \/ a.key[1] # a.value[1]
    \/ a.key[2] # a.value[2]
    \/ \E w \in {a.query[3], a.key[3], a.value[3]} : w # mha.linears.in_features
    \/ /\ a.mask.given
       /\ ~ExpandsTo(Unsqueeze1(a.mask.shape), <<a.query[1], mha.h, a.query[2], a.key[2]>>)

\* C2: a forward call whose query, key and value have mismatched shapes, or
\* whose mask cannot be matched against the score shape, is rejected with
\* an error: it never returns an output.
C2_MismatchRejected ==
    \A c \in Callers :
        (calls[c].pc = "returned") => ~Mismatched(calls[c].args)

\* C3: forward on an input whose sequence length exceeds max_len fails and
\* returns no tensor.
C3_LongSequenceRaises ==
    (pe_call.pc = "returned") => (pe_call.x[2] <= pe.max_len)

\* C4: constructing MultiHeadedAttention(h, d_model) with d_model % h != 0
\* produces no instance, and every instance constructed has
\* d_k * h = d_model with d_k = d_model / h.
C4_ConstructRejectsIndivisible ==
    ctor.called =>
        /\ (ctor.h = 0) => ~mha.exists
        /\ (ctor.h # 0 /\ ctor.d_model % ctor.h # 0) =>
             (~mha.exists /\ ctor.outcome = "AssertionError")
        /\ mha.exists =>
             /\ mha.h = ctor.h
             /\ mha.d_k * mha.h = ctor.d_model
             /\ mha.d_k = ctor.d_model \div mha.h

\* C4's case: MultiHeadedAttention(2, 3) was attempted and there is no
\* instance.
C4_Witness ==
    /\ ctor.called
    /\ ctor.h = 2
    /\ ctor.d_model = 3
    /\ ~mha.exists

\* The arguments C5 is about: query (batch, len_q, d_model), key and value
\* (batch, len_k, d_model), and no mask or one that expands to
\* (batch, len_q, len_k).
WellFormed(a) ==
    /\ a.query[3] = mha.linears.in_features
    /\ a.key = <<a.query[1], a.key[2], a.query[3]>>
    /\ a.value = a.key
    /\ a.mask.given => ExpandsTo(a.mask.shape, <<a.query[1], a.query[2], a.key[2]>>)

\* C5: for query (batch, len_q, d_model) and key and value
\* (batch, len_k, d_model), with or without a mask, forward raises nowhere,
\* the split gives (batch, h, len, d_k) tensors, the heads' outputs have
\* shape (batch, h, len_q, d_k) and the output has exactly the query's shape.
C5_OutputShapeIsQueryShape ==
    \A c \in Callers :
        (calls[c].pc # "idle" /\ WellFormed(calls[c].args)) =>
            LET cl == calls[c]
                b == cl.args.query[1]
            IN  /\ cl.pc # "raised"
                /\ cl.pc \in {"projected", "attended", "stored"} =>
                     /\ cl.query = <<b, mha.h, cl.args.query[2], mha.d_k>>
                     /\ cl.key = <<b, mha.h, cl.args.key[2], mha.d_k>>
                     /\ cl.value = cl.key
                /\ cl.pc \in {"attended", "stored"} =>
                     cl.x.shape = <<b, mha.h, cl.args.query[2], mha.d_k>>
                /\ cl.pc = "returned" => cl.out.shape = cl.args.query

\* C5's case: a call with two heads, a mask and len_k # len_q has returned.
C5_Witness ==
    /\ calls[1].pc = "returned"
    /\ WellFormed(calls[1].args)
    /\ mha.h = 2
    /\ calls[1].args.mask.given
    /\ calls[1].args.query[2] # calls[1].args.key[2]
    /\ calls[1].args.query[1] = 2

\* C10: self.attn is None until an attention step has completed and is
\* then the weights of the call whose attention step completed last; each
\* call's output is computed from that call's own weights; forward changes
\* no other field of the instance.
C10_AttnIsLastCompleted ==
    /\ mha.attn = IF last_store = 0
                  THEN NoneAttn
                  ELSE [call |-> last_store, shape |-> weights_log[last_store]]
    /\ \A c \in Callers :
         /\ calls[c].pc = "returned" => calls[c].out.weights = calls[c].serial
         /\ calls[c].pc \in {"attended", "stored"} => calls[c].x.weights = calls[c].serial
    /\ mha.h = ctor.h
    /\ mha.d_k = ctor.d_model \div ctor.h
    /\ mha.linears = [in_features |-> ctor.d_model, out_features |-> ctor.d_model]

\* C10's case: two calls interleaved; the later one has returned and
\* self.attn holds the weights of the earlier one, which stored them after
\* it and has not returned yet.
C10_Witness ==
    \E c \in Callers, d \in Callers :
        /\ calls[c].pc = "returned"
        /\ calls[d].pc = "stored"
        /\ 0 < calls[d].serial
        /\ calls[d].serial < calls[c].serial
        /\ mha.attn.call = calls[d].serial

\* The order in which SublayerConnection.forward must call its parts.
PreNormOrder == <<"norm", "sublayer", "dropout", "add">>

\* C6: SublayerConnection.forward(x, f) computes
\* x + dropout(f(LayerNorm(x))): the norm is applied, to x, before f; f
\* receives the normalized value; dropout receives f's result; the residual
\* add uses the x forward was given; with f the identity and dropout zero
\* the result is x + LayerNorm(x).
C6_SublayerIsPreNormResidual ==
    prog = "sublayer" =>
        LET normed == [r \in Runs |-> LayerNormForward(Self, x_in[r])]
            applied == [r \in Runs |-> Sublayer(sublayer, Rnd(r), normed[r])]
            dropped == [r \in Runs |-> DropoutForward(Self, Rnd(r), applied[r])]
        IN  /\ Len(log) <= 4
            /\ \A k \in 1..Len(log) : log[k].op = PreNormOrder[k]
            /\ Len(log) >= 1 => log[1].arg = x_in
            /\ Len(log) >= 2 => log[2].arg = normed
            /\ Len(log) >= 3 => log[3].arg = applied
            /\ Len(log) >= 4 => log[4].arg = x_in
            /\ stack_pc = "returned" =>
                 /\ Len(log) = 4
                 /\ x_run = [r \in Runs |-> Add(x_in[r], dropped[r])]
                 /\ (sublayer = "identity" /\ p_drop = 0) =>
                      x_run = [r \in Runs |-> Add(x_in[r], normed[r])]

\* C6's case: a SublayerConnection called with a feed-forward sublayer and
\* dropout on has returned.
C6_Witness ==
    /\ prog = "sublayer"
    /\ stack_pc = "returned"
    /\ sublayer = "feed_forward"
    /\ p_drop = 1
    /\ Len(log) = 4

\* Layers 1..k of an encoder composed by hand: layer k applied to the
\* output of layer k - 1.
RECURSIVE ComposedEncoderLayers(_, _, _, _)
ComposedEncoderLayers(k, rnd, t, mask) ==
    IF k = 0 THEN t
    ELSE EncoderLayerForward(k, rnd, ComposedEncoderLayers(k - 1, rnd, t, mask), mask)

\* Layers 1..k of a decoder composed by hand.
RECURSIVE ComposedDecoderLayers(_, _, _, _, _, _)
ComposedDecoderLayers(k, rnd, t, m, smask, tmask) ==
    IF k = 0 THEN t
    ELSE DecoderLayerForward(k, rnd, ComposedDecoderLayers(k - 1, rnd, t, m, smask, tmask),
                             m, smask, tmask)

\* C7: a stack of N layers equals its layers applied by hand one after the
\* other, layer i + 1 to the completed output of layer i, with the stack's
\* LayerNorm applied once, after the last layer and never between layers;
\* for N = 2 that is norm(layer2(layer1(x))).
C7_StackIsComposition ==
    /\ (prog = "encoder" /\ stack_pc = "layers") =>
         x_run = [r \in Runs |-> ComposedEncoderLayers(layer_i, Rnd(r), x_in[r], src_mask)]
    /\ (prog = "encoder" /\ stack_pc = "returned") =>
         /\ x_run = [r \in Runs |->
                       LayerNormForward(<<"encoder", 0, "norm">>,
                           ComposedEncoderLayers(N, Rnd(r), x_in[r], src_mask))]
         /\ N = 2 =>
              x_run = [r \in Runs |->
                         LayerNormForward(<<"encoder", 0, "norm">>,
                             EncoderLayerForward(2, Rnd(r),
                                 EncoderLayerForward(1, Rnd(r), x_in[r], src_mask), src_mask))]
    /\ (prog = "decoder" /\ stack_pc = "layers") =>
         x_run = [r \in Runs |->
                    ComposedDecoderLayers(layer_i, Rnd(r), x_in[r], memory, src_mask, tgt_mask)]
    /\ (prog = "decoder" /\ stack_pc = "returned") =>
         /\ x_run = [r \in Runs |->
                       LayerNormForward(<<"decoder", 0, "norm">>,
                           ComposedDecoderLayers(N, Rnd(r), x_in[r], memory, src_mask, tgt_mask))]
         /\ N = 2 =>
              x_run = [r \in Runs |->
                         LayerNormForward(<<"decoder", 0, "norm">>,
                             DecoderLayerForward(2, Rnd(r),
                                 DecoderLayerForward(1, Rnd(r), x_in[r], memory, src_mask, tgt_mask),
                                 memory, src_mask, tgt_mask))]

\* C7's case: an Encoder of two layers has returned.
C7_Witness ==
    /\ prog = "encoder"
    /\ N = 2
    /\ stack_pc = "returned"
    /\ layer_i = 2

\* The two target inputs agree on positions 0..i.
AgreeUpTo(i) == \A j \in 0..i : x_in[1][j] = x_in[2][j]

\* C9: with tgt_mask = subsequent_mask(L) and dropout off, two target
\* inputs that agree on positions 0..i, with the same memory and src_mask,
\* give the same value at position i after every layer and in the output
\* of Decoder.forward.
C9_DecoderIsCausal ==
    (prog = "decoder" /\ p_drop = 0
        /\ tgt_mask = SubsequentMask(Cardinality(DOMAIN x_in[1]))) =>
        \A i \in DOMAIN x_in[1] : AgreeUpTo(i) => x_run[1][i] = x_run[2][i]

\* C9's case: a two-layer decoder has returned for two inputs of length 3
\* that agree on positions 0 and 1 only; the outputs agree on positions 0
\* and 1 and differ at position 2.
C9_Witness ==
    /\ prog = "decoder"
    /\ p_drop = 0
    /\ tgt_mask = SubsequentMask(3)
    /\ N = 2
    /\ stack_pc = "returned"
    /\ DOMAIN x_in[1] = 0..2
    /\ AgreeUpTo(1)
    /\ x_in[1][2] # x_in[2][2]
    /\ x_run[1][1] = x_run[2][1]
    /\ x_run[1][2] # x_run[2][2]

\* C8: in every model make_model returns, for every N >= 1, no tensor
\* object is held twice -- the objects of the N encoder layers, of the N
\* decoder layers (self-attention, cross-attention, feed-forward and
\* sublayer connections, each attention with its four linear projections),
\* of the two norms, of the two embeddings with their positional encodings
\* and of the generator are pairwise distinct -- and therefore an object
\* reads as changed exactly when it is one that was changed: changing a
\* parameter of one layer changes no parameter of any sibling.
C8_NoSharedParameter ==
    make_pc = "returned" =>
        LET objects == ModelObjects
        IN  /\ Cardinality(Ids(objects)) = Len(objects)
            /\ \A s \in 1..Len(objects) :
                 objects[s].id \in written <=> s \in written_slots

\* C8's case: a model of two layers has been returned and the first object
\* of its first encoder layer (the weight of the first linear projection
\* of its self-attention) has been changed, together with the first object
\* of the self-attention of its first decoder layer; the same objects of
\* the second layers, and of the cross-attention, read as unchanged.
C8_Witness ==
    /\ make_pc = "returned"
    /\ n_layers = 2
    /\ Len(model.encoder.layers) = 2
    /\ Len(model.decoder.layers) = 2
    /\ model.encoder.layers[1][1].id \in written
    /\ model.encoder.layers[2][1].id \notin written
    /\ model.decoder.layers[1][1].id \in written
    /\ model.decoder.layers[1][9].id \notin written
    /\ model.decoder.layers[2][1].id \notin written
    /\ model.src_embed[2].id # model.tgt_embed[2].id

====
